---- MODULE Spec2Model ----
(***************************************************************************)
(* Memoised minimax over a game tree (memoise_paper.ipynb).                *)
(*                                                                         *)
(* The notebook's cells are modelled as a small-step machine: every Python *)
(* call is a frame on a call stack, and one action executes the            *)
(* statements of a frame up to the next call, return or raise.             *)
(*                                                                         *)
(* Identifiers are Python strings, modelled as the sequence of their       *)
(* characters: 'ab' is <<"a", "b">> and the root 'root' is                 *)
(* <<"r", "o", "o", "t">>.  The notebook loads a 3x3 board (9 letters);    *)
(* the model plays the same game shape on a board of Len(Alphabet) cells.  *)
(***************************************************************************)
EXTENDS Integers, Sequences, FiniteSets, TLC

VARIABLES
    tree,       \* TicToe_3x3: the loaded game tree (never written)
    memo,       \* Memoize_tree.memo: function_call_hash -> stored result
    stack,      \* per thread of control: the Python call stack, top last
    ret,        \* per thread of control: value or exception in flight
    cell,       \* the notebook cell the main thread is executing
    nops,       \* number of cells started so far
    widx,       \* warm-up loop: index of the current element of all_states
    attempted,  \* warm-up loop: candidates handed to determine_move, in order
    warmDone,   \* the warm-up cell has run to its end
    last,       \* outcome of the last finished cell
    bodyRuns,   \* per key: how often the wrapped minmax_tt body was entered
    enumerated, \* ids on which the evaluator body called tree.children
    before      \* the tree and memo at the moment another tree was bound

vars == <<tree, memo, stack, ret, cell, nops, widx, attempted, warmDone,
          last, bodyRuns, enumerated, before>>

-----------------------------------------------------------------------------
(* Bounds *)

\* Number of notebook cells (top-level calls) one behaviour may start.
MaxOps == 2

-----------------------------------------------------------------------------
(* Strings, the move alphabet and the candidate identifiers *)

\* The list of move symbols handed to itertools.permutations.
Alphabet == <<"a", "b", "c">>

Symbols == {Alphabet[i] : i \in 1..Len(Alphabet)}

\* The identifier of the empty board.
RootId == <<"r", "o", "o", "t">>

RECURSIVE Concat(_)
\* Concatenation of a sequence of sequences, in order.
Concat(ss) == IF ss = <<>> THEN <<>> ELSE Head(ss) \o Concat(Tail(ss))

RECURSIVE join(_)
\* ''.join(state): the characters of the tuple's one-letter strings, in order.
join(state) == IF state = <<>> THEN <<>> ELSE <<Head(state)>> \o join(Tail(state))

Contains(s, x) == \E i \in 1..Len(s) : s[i] = x

RECURSIVE permutations_from(_, _)
\* itertools.permutations(Alphabet, r): the r-length tuples without repeated
\* element, in lexicographic order of the positions in Alphabet.
permutations_from(prefix, r) ==
    IF Len(prefix) = r THEN <<prefix>>
    ELSE Concat([i \in 1..Len(Alphabet) |->
                    IF Contains(prefix, Alphabet[i]) THEN <<>>
                    ELSE permutations_from(Append(prefix, Alphabet[i]), r)])

permutations(r) == permutations_from(<<>>, r)

\* The stop value of range(1, 9): the notebook's literal 9 is the number of
\* letters of its alphabet.
range_stop == Len(Alphabet)

\* range(1, 9): Python's range excludes its stop value.
range_lengths == [k \in 1..(range_stop - 1) |-> k]

\* all_states: for each length of the range, the joined permutations.
all_states ==
    Concat([k \in 1..Len(range_lengths) |->
               [j \in 1..Len(permutations(range_lengths[k])) |->
                   join(permutations(range_lengths[k])[j])]])

\* Every string without repeated letter, of length 1 up to the cell count.
Positions ==
    UNION {{join(permutations(r)[j]) : j \in 1..Len(permutations(r))} :
              r \in 1..Len(Alphabet)}

\* An identifier that names no position of any tree.
AbsentId == <<"z">>

Ids == Positions \cup {RootId, AbsentId}

Keys == Ids \X BOOLEAN

-----------------------------------------------------------------------------
(* The game tree (treelib.Tree holding the positions) *)

\* The position one move before id.
ParentOf(id) == IF Len(id) = 1 THEN RootId ELSE SubSeq(id, 1, Len(id) - 1)

AlphaIndex(c) == CHOOSE i \in 1..Len(Alphabet) : Alphabet[i] = c

\* The members of nodes one move after id, in the order of their last move.
ChildrenIn(nodes, id) ==
    LET kids == {n \in nodes \ {RootId} : ParentOf(n) = id}
        ord  == {AlphaIndex(n[Len(n)]) : n \in kids}
        nth(k) == CHOOSE i \in ord : Cardinality({j \in ord : j < i}) = k - 1
    IN  [k \in 1..Cardinality(kids) |->
            CHOOSE n \in kids : AlphaIndex(n[Len(n)]) = nth(k)]

\* A well-formed tree from its end states: a position is in the tree exactly
\* when no position on the way to it is an end state. Each node holds the
\* list of its children and, for an end state, its value.
MkTree(term) ==
    LET nodes == {RootId} \cup
                 {p \in Positions :
                     \A k \in 1..(Len(p) - 1) : SubSeq(p, 1, k) \notin DOMAIN term}
    IN  [nodes |-> nodes,
         kids  |-> [id \in nodes |-> ChildrenIn(nodes, id)],
         term  |-> term]

\* The spec's 3-cell single-row scenario: a:+1, b:-1, c:+1.
TreeRow ==
    MkTree(<<"a">> :> 1 @@ <<"b">> :> (-1) @@ <<"c">> :> 1)

\* Every game runs until the board is full.
TreeFull ==
    MkTree(<<"a", "b", "c">> :> 1 @@ <<"a", "c", "b">> :> (-1) @@
           <<"b", "a", "c">> :> 0 @@ <<"b", "c", "a">> :> 1 @@
           <<"c", "a", "b">> :> (-1) @@ <<"c", "b", "a">> :> 0)

\* Games of different lengths: a wins at once, b and c are played on.
TreeMixed ==
    MkTree(<<"a">> :> 0 @@
           <<"b", "a">> :> (-1) @@ <<"b", "c", "a">> :> 1 @@
           <<"c", "a", "b">> :> 1 @@ <<"c", "b", "a">> :> (-1))

\* Early wins on the second move next to full-length games.
TreeEarly ==
    MkTree(<<"a", "b">> :> 1 @@ <<"a", "c", "b">> :> 0 @@
           <<"b", "a", "c">> :> (-1) @@ <<"b", "c">> :> (-1) @@
           <<"c", "a">> :> 0 @@ <<"c", "b", "a">> :> 1)

Trees == {TreeRow, TreeFull, TreeMixed, TreeEarly}

\* A tree that breaks the end-state rule: the positions of missing are left
\* out, so that their parents are no end states and have no children.
MkBrokenTree(term, missing) ==
    LET nodes == MkTree(term).nodes \ missing
    IN  [nodes |-> nodes,
         kids  |-> [id \in nodes |-> ChildrenIn(nodes, id)],
         term  |-> term]

\* The full-length games with the last move after b, c left out: bc is no
\* end state and has no children, next to the complete subtree of ba.
TreeStuck ==
    MkBrokenTree(<<"a", "b", "c">> :> 1 @@ <<"a", "c", "b">> :> (-1) @@
                 <<"b", "a", "c">> :> 0 @@
                 <<"c", "a", "b">> :> (-1) @@ <<"c", "b", "a">> :> 0,
                 {<<"b", "c", "a">>})

\* b is no end state and has no children; a and c are won at once.
TreeHollow ==
    MkBrokenTree(<<"a">> :> 1 @@ <<"c">> :> (-1),
                 {<<"b", "a">>, <<"b", "c">>, <<"b", "a", "c">>, <<"b", "c", "a">>})

InvalidTrees == {TreeStuck, TreeHollow}

AllTrees == Trees \cup InvalidTrees

\* tree[nid] / tree.children(nid) raise NodeIDAbsentError for an unknown nid.
contains(t, id) == id \in t.nodes

\* node.data.is_endstate()
is_endstate(t, id) == id \in DOMAIN t.term

\* node.data.get_value()
get_value(t, id) == t.term[id]

\* tree.children(nid) for a nid of the tree: its child identifiers, in the
\* order of their last move.
children(t, id) == t.kids[id]

-----------------------------------------------------------------------------
(* Values in flight: a returned score, a returned move, or an exception *)

NoRet == [kind |-> "none", v |-> 0, s |-> ""]
Val(x) == [kind |-> "val", v |-> x, s |-> ""]
Move(m) == [kind |-> "move", v |-> 0, s |-> m]
Exc(e) == [kind |-> "exc", v |-> 0, s |-> e]

SeqMax(scores) == CHOOSE x \in {scores[i] : i \in 1..Len(scores)} :
                      \A i \in 1..Len(scores) : scores[i] <= x
SeqMin(scores) == CHOOSE x \in {scores[i] : i \in 1..Len(scores)} :
                      \A i \in 1..Len(scores) : scores[i] >= x

RECURSIVE collect_unmemoized(_, _, _, _, _)
RECURSIVE minmax_tt_unmemoized(_, _, _)
\* The list comprehension of the unmemoized evaluator from child k on, then
\* its max/min: a score, or the first exception raised on the way.
collect_unmemoized(t, kids, k, is_max, scores) ==
    IF k > Len(kids)
    THEN IF Len(scores) = 0 THEN Exc("ValueError")
         ELSE IF is_max THEN Val(SeqMax(scores)) ELSE Val(SeqMin(scores))
    ELSE LET r == minmax_tt_unmemoized(t, kids[k], ~is_max)
         IN  IF r.kind = "exc" THEN r
             ELSE collect_unmemoized(t, kids, k + 1, is_max, Append(scores, r.v))

\* The first definition of minmax_tt, before it is decorated.
minmax_tt_unmemoized(t, current_id, is_max) ==
    IF ~contains(t, current_id) THEN Exc("NodeIDAbsentError")
    ELSE IF is_endstate(t, current_id) THEN Val(get_value(t, current_id))
    ELSE collect_unmemoized(t, children(t, current_id), 1, is_max, <<>>)

-----------------------------------------------------------------------------
(* Memoize_tree and the decorated minmax_tt *)

\* A key that leaves out the role as well as the tree.
function_call_hash_id_only(current_id, is_max) == <<current_id, TRUE>>

\* function_call_hash = args[1:]: the arguments without the tree.
function_call_hash(current_id, is_max) == <<current_id, is_max>>

\* A membership test that never finds the key.
memo_miss_always(m, key) == TRUE

\* function_call_hash not in self.memo
memo_miss(m, key) == key \notin DOMAIN m

\* A store that rebinds memo to a dictionary holding the new entry alone.
memo_store_rebind(m, key, result) == [k \in {key} |-> result]

\* self.memo[function_call_hash] = result
memo_store(m, key, result) ==
    [k \in DOMAIN m \cup {key} |-> IF k = key THEN result ELSE m[k]]

\* return self.memo[function_call_hash]
memo_read(m, key) == IF key \in DOMAIN m THEN Val(m[key]) ELSE Exc("KeyError")

\* The children evaluated with the role of their parent.
child_role_same(is_max) == is_max

\* The role handed to the children: not is_max.
child_role(is_max) == ~is_max

\* A head that enumerates the children before it tests for the end state.
body_entry_enumerate_first(t, current_id) ==
    IF ~contains(t, current_id)
    THEN [kind |-> "raise", out |-> Exc("NodeIDAbsentError"), enumerates |-> FALSE]
    ELSE IF is_endstate(t, current_id)
    THEN [kind |-> "return", out |-> Val(get_value(t, current_id)),
          enumerates |-> TRUE]
    ELSE [kind |-> "children", out |-> NoRet, enumerates |-> TRUE]

\* The head of the decorated minmax_tt: the node lookup, the end-state test
\* and the enumeration of the children.
body_entry(t, current_id) ==
    IF ~contains(t, current_id)
    THEN [kind |-> "raise", out |-> Exc("NodeIDAbsentError"), enumerates |-> FALSE]
    ELSE IF is_endstate(t, current_id)
    THEN [kind |-> "return", out |-> Val(get_value(t, current_id)),
          enumerates |-> FALSE]
    ELSE [kind |-> "children", out |-> NoRet, enumerates |-> TRUE]

\* A max/min with a default, which returns 0 for an empty list.
reduce_scores_default(scores, is_max) ==
    IF Len(scores) = 0 THEN Val(0)
    ELSE IF is_max THEN Val(SeqMax(scores)) ELSE Val(SeqMin(scores))

\* max(scores) / min(scores) of the decorated minmax_tt; both raise
\* ValueError on an empty list.
reduce_scores(scores, is_max) ==
    IF Len(scores) = 0 THEN Exc("ValueError")
    ELSE IF is_max THEN Val(SeqMax(scores)) ELSE Val(SeqMin(scores))

-----------------------------------------------------------------------------
(* determine_move *)

\* Whether the name random is bound when determine_move runs: the notebook
\* imports dill, treelib, numpy, pandas, time, tqdm and itertools only.
random_imported == FALSE

\* np.where(raw_scores == max(raw_scores))[0], or with min: the indices of
\* the children with the extremal score.
best_indices(raw_scores, is_max) ==
    LET best == IF is_max THEN SeqMax(raw_scores) ELSE SeqMin(raw_scores)
    IN  {i \in 1..Len(raw_scores) : raw_scores[i] = best}

\* moves = [child.identifier[-1] for child in potential_moves]
moves_of(kids) == [k \in 1..Len(kids) |-> kids[k][Len(kids[k])]]

\* The last statement of determine_move: every outcome it can have. The name
\* random is looked up before max/min is applied to the scores.
choose_move(moves, raw_scores, is_max) ==
    IF ~random_imported THEN {Exc("NameError")}
    ELSE IF Len(raw_scores) = 0 THEN {Exc("ValueError")}
    ELSE {Move(moves[i]) : i \in best_indices(raw_scores, is_max)}

-----------------------------------------------------------------------------
(* The call stack *)

Threads == {"main", "worker"}

Frame(fn, id, is_max, pc) ==
    [fn |-> fn, id |-> id, is_max |-> is_max, pc |-> pc, i |-> 0, scores |-> <<>>,
     hit |-> FALSE]

Top(w) == stack[w][Len(stack[w])]

Pop(w) == SubSeq(stack[w], 1, Len(stack[w]) - 1)

SetTop(w, f) == [stack[w] EXCEPT ![Len(stack[w])] = f]

Running(w, fn, pc) ==
    /\ Len(stack[w]) > 0
    /\ Top(w).fn = fn
    /\ Top(w).pc = pc

\* __call__: the membership test; on a miss the wrapped function is called.
Memoize_test(w) ==
    /\ Running(w, "__call__", "test")
    /\ ret[w].kind = "none"
    /\ LET f == Top(w)
           key == function_call_hash(f.id, f.is_max)
       IN  IF memo_miss(memo, key)
           THEN /\ stack' = [stack EXCEPT ![w] =
                       Append(SetTop(w, [f EXCEPT !.pc = "store"]),
                              Frame("minmax_tt", f.id, f.is_max, "enter"))]
                /\ bodyRuns' = [bodyRuns EXCEPT ![<<f.id, f.is_max>>] = @ + 1]
           ELSE /\ stack' = [stack EXCEPT ![w] =
                       SetTop(w, [f EXCEPT !.pc = "return", !.hit = TRUE])]
                /\ UNCHANGED bodyRuns
    /\ UNCHANGED <<before, tree, memo, ret, cell, nops, widx, attempted, warmDone, last,
                   enumerated>>

\* __call__: the wrapped function has returned; its result is stored.
Memoize_store(w) ==
    /\ Running(w, "__call__", "store")
    /\ ret[w].kind = "val"
    /\ LET f == Top(w)
       IN  /\ memo' = memo_store(memo, function_call_hash(f.id, f.is_max), ret[w].v)
           /\ stack' = [stack EXCEPT ![w] = SetTop(w, [f EXCEPT !.pc = "return"])]
    /\ ret' = [ret EXCEPT ![w] = NoRet]
    /\ UNCHANGED <<before, tree, cell, nops, widx, attempted, warmDone, last, bodyRuns,
                   enumerated>>

\* __call__: the result is read back from memo and returned.
Memoize_return(w) ==
    /\ Running(w, "__call__", "return")
    /\ ret[w].kind = "none"
    /\ LET f == Top(w)
       IN  ret' = [ret EXCEPT ![w] = memo_read(memo, function_call_hash(f.id, f.is_max))]
    /\ stack' = [stack EXCEPT ![w] = Pop(w)]
    /\ UNCHANGED <<before, tree, memo, cell, nops, widx, attempted, warmDone, last, bodyRuns,
                   enumerated>>

\* minmax_tt: from the node lookup to the first child, a return or a raise.
minmax_tt_enter(w) ==
    /\ Running(w, "minmax_tt", "enter")
    /\ LET f == Top(w)
           e == body_entry(tree, f.id)
       IN  /\ enumerated' = IF e.enumerates THEN enumerated \cup {f.id} ELSE enumerated
           /\ IF e.kind = "children"
              THEN /\ stack' = [stack EXCEPT ![w] = SetTop(w, [f EXCEPT !.pc = "loop"])]
                   /\ UNCHANGED ret
              ELSE /\ stack' = [stack EXCEPT ![w] = Pop(w)]
                   /\ ret' = [ret EXCEPT ![w] = e.out]
    /\ UNCHANGED <<before, tree, memo, cell, nops, widx, attempted, warmDone, last, bodyRuns>>

\* The list comprehension of minmax_tt and of determine_move: the memoized
\* evaluator is called on the next child with the opposite role.
comprehension_call(w) ==
    /\ Len(stack[w]) > 0
    /\ Top(w).fn \in {"minmax_tt", "determine_move"}
    /\ Top(w).pc = "loop"
    /\ ret[w].kind = "none"
    /\ LET f == Top(w)
           kids == children(tree, f.id)
       IN  /\ f.i < Len(kids)
           /\ stack' = [stack EXCEPT ![w] =
                  Append(stack[w],
                         Frame("__call__", kids[f.i + 1], child_role(f.is_max), "test"))]
    /\ UNCHANGED <<before, tree, memo, ret, cell, nops, widx, attempted, warmDone, last,
                   bodyRuns, enumerated>>

\* The list comprehension receives the child's score.
comprehension_collect(w) ==
    /\ Len(stack[w]) > 0
    /\ Top(w).fn \in {"minmax_tt", "determine_move"}
    /\ Top(w).pc = "loop"
    /\ ret[w].kind = "val"
    /\ LET f == Top(w)
       IN  stack' = [stack EXCEPT ![w] =
               SetTop(w, [f EXCEPT !.i = @ + 1, !.scores = Append(@, ret[w].v)])]
    /\ ret' = [ret EXCEPT ![w] = NoRet]
    /\ UNCHANGED <<before, tree, memo, cell, nops, widx, attempted, warmDone, last, bodyRuns,
                   enumerated>>

\* minmax_tt: all children are scored; the max or min is returned.
minmax_tt_reduce(w) ==
    /\ Running(w, "minmax_tt", "loop")
    /\ ret[w].kind = "none"
    /\ LET f == Top(w)
       IN  /\ f.i = Len(children(tree, f.id))
           /\ ret' = [ret EXCEPT ![w] = reduce_scores(f.scores, f.is_max)]
    /\ stack' = [stack EXCEPT ![w] = Pop(w)]
    /\ UNCHANGED <<before, tree, memo, cell, nops, widx, attempted, warmDone, last, bodyRuns,
                   enumerated>>

\* determine_move: tree.children(current_id) and the list of moves.
determine_move_enter(w) ==
    /\ Running(w, "determine_move", "enter")
    /\ LET f == Top(w)
       IN  IF contains(tree, f.id)
           THEN /\ stack' = [stack EXCEPT ![w] = SetTop(w, [f EXCEPT !.pc = "loop"])]
                /\ UNCHANGED ret
           ELSE /\ stack' = [stack EXCEPT ![w] = Pop(w)]
                /\ ret' = [ret EXCEPT ![w] = Exc("NodeIDAbsentError")]
    /\ UNCHANGED <<before, tree, memo, cell, nops, widx, attempted, warmDone, last, bodyRuns,
                   enumerated>>

\* determine_move: all children are scored; a best move is picked.
determine_move_choose(w) ==
    /\ Running(w, "determine_move", "loop")
    /\ ret[w].kind = "none"
    /\ LET f == Top(w)
           kids == children(tree, f.id)
       IN  /\ f.i = Len(kids)
           /\ \E r \in choose_move(moves_of(kids), f.scores, f.is_max) :
                  ret' = [ret EXCEPT ![w] = r]
    /\ stack' = [stack EXCEPT ![w] = Pop(w)]
    /\ UNCHANGED <<before, tree, memo, cell, nops, widx, attempted, warmDone, last, bodyRuns,
                   enumerated>>

\* An exception leaves the frame it reaches: no function of the notebook
\* catches one, and __call__ is left before its store.
propagate(w) ==
    /\ Len(stack[w]) > 0
    /\ ret[w].kind = "exc"
    /\ stack' = [stack EXCEPT ![w] = Pop(w)]
    /\ UNCHANGED <<before, tree, memo, ret, cell, nops, widx, attempted, warmDone, last,
                   bodyRuns, enumerated>>

\* The steps of the memoized evaluator alone.
StepEval(w) ==
    \/ Memoize_test(w)
    \/ Memoize_store(w)
    \/ Memoize_return(w)
    \/ minmax_tt_enter(w)
    \/ comprehension_call(w)
    \/ comprehension_collect(w)
    \/ minmax_tt_reduce(w)
    \/ propagate(w)

Step(w) ==
    \/ Memoize_test(w)
    \/ Memoize_store(w)
    \/ Memoize_return(w)
    \/ minmax_tt_enter(w)
    \/ comprehension_call(w)
    \/ comprehension_collect(w)
    \/ minmax_tt_reduce(w)
    \/ determine_move_enter(w)
    \/ determine_move_choose(w)
    \/ propagate(w)

-----------------------------------------------------------------------------
(* The notebook's cells, run by the main thread *)

Main == "main"

\* The identifiers the cells are run on: the empty board, positions one and
\* two moves in, a full board, and an identifier the tree does not hold.
CallIds == {RootId, <<"a">>, <<"b">>, <<"b", "c">>, <<"c", "b", "a">>, AbsentId}

Idle == [name |-> "idle", id |-> <<>>, is_max |-> FALSE]

\* An except clause that names the tree's lookup error alone.
except_catches_lookup_only(e) == e = "NodeIDAbsentError"

\* The bare except of the warm-up loop catches every exception.
except_catches(e) == TRUE

\* The role the warm-up loop passes to determine_move.
warmup_role == FALSE

Quiet == /\ cell.name = "idle"
         /\ stack[Main] = <<>>
         /\ ret[Main].kind = "none"
         /\ nops < MaxOps

\* A cell calls determine_move(TicToe_3x3, id, is_max).
RunDetermineMove ==
    /\ Quiet
    /\ \E id \in CallIds, is_max \in BOOLEAN :
          /\ cell' = [name |-> "determine_move", id |-> id, is_max |-> is_max]
          /\ stack' = [stack EXCEPT ![Main] =
                          <<Frame("determine_move", id, is_max, "enter")>>]
    /\ nops' = nops + 1
    /\ UNCHANGED <<before, tree, memo, ret, widx, attempted, warmDone, last, bodyRuns,
                   enumerated>>

\* A cell calls the decorated minmax_tt(TicToe_3x3, id, is_max).
RunMinmax ==
    /\ Quiet
    /\ \E id \in CallIds, is_max \in BOOLEAN :
          /\ cell' = [name |-> "minmax_tt", id |-> id, is_max |-> is_max]
          /\ stack' = [stack EXCEPT ![Main] = <<Frame("__call__", id, is_max, "test")>>]
    /\ nops' = nops + 1
    /\ UNCHANGED <<before, tree, memo, ret, widx, attempted, warmDone, last, bodyRuns,
                   enumerated>>

\* The call of the cell has returned or raised: the cell ends.
CellEnd ==
    /\ cell.name \in {"determine_move", "minmax_tt"}
    /\ stack[Main] = <<>>
    /\ ret[Main].kind # "none"
    /\ last' = [name |-> cell.name, id |-> cell.id, is_max |-> cell.is_max,
                out |-> ret[Main]]
    /\ ret' = [ret EXCEPT ![Main] = NoRet]
    /\ cell' = Idle
    /\ UNCHANGED <<before, tree, memo, stack, nops, widx, attempted, warmDone, bodyRuns,
                   enumerated>>

\* The warm-up cell starts: all_states is built and the loop begins.
WarmupStart ==
    /\ Quiet
    /\ ~warmDone
    /\ cell' = [name |-> "warmup", id |-> <<>>, is_max |-> warmup_role]
    /\ widx' = 1
    /\ attempted' = <<>>
    /\ nops' = nops + 1
    /\ UNCHANGED <<before, tree, memo, stack, ret, warmDone, last, bodyRuns, enumerated>>

\* for state in all_states: try: determine_move(TicToe_3x3, state, False)
WarmupTry ==
    /\ cell.name = "warmup"
    /\ stack[Main] = <<>>
    /\ ret[Main].kind = "none"
    /\ widx <= Len(all_states)
    /\ stack' = [stack EXCEPT ![Main] =
                    <<Frame("determine_move", all_states[widx], warmup_role, "enter")>>]
    /\ attempted' = Append(attempted, all_states[widx])
    /\ UNCHANGED <<before, tree, memo, ret, cell, nops, widx, warmDone, last, bodyRuns,
                   enumerated>>

\* The try statement ends: the move is assigned, or the exception is caught
\* and passed over; an exception that is not caught ends the cell.
WarmupNext ==
    /\ cell.name = "warmup"
    /\ stack[Main] = <<>>
    /\ ret[Main].kind # "none"
    /\ IF ret[Main].kind = "exc" /\ ~except_catches(ret[Main].s)
       THEN /\ cell' = Idle
            /\ last' = [name |-> "warmup", id |-> all_states[widx],
                        is_max |-> warmup_role, out |-> ret[Main]]
            /\ UNCHANGED widx
       ELSE /\ widx' = widx + 1
            /\ UNCHANGED <<cell, last>>
    /\ ret' = [ret EXCEPT ![Main] = NoRet]
    /\ UNCHANGED <<before, tree, memo, stack, nops, attempted, warmDone, bodyRuns, enumerated>>

\* The loop has passed the last element of all_states.
WarmupEnd ==
    /\ cell.name = "warmup"
    /\ stack[Main] = <<>>
    /\ ret[Main].kind = "none"
    /\ widx > Len(all_states)
    /\ cell' = Idle
    /\ warmDone' = TRUE
    /\ last' = [name |-> "warmup", id |-> <<>>, is_max |-> warmup_role, out |-> NoRet]
    /\ UNCHANGED <<before, tree, memo, stack, ret, nops, widx, attempted, bodyRuns, enumerated>>

-----------------------------------------------------------------------------
(* The sequential notebook *)

\* The state once the cells defining the functions have run on tree t.
Start(t) ==
    /\ tree = t
    /\ before = [tree |-> t, memo |-> <<>>]
    /\ memo = <<>>
    /\ stack = [w \in Threads |-> <<>>]
    /\ ret = [w \in Threads |-> NoRet]
    /\ cell = Idle
    /\ nops = 0
    /\ widx = 0
    /\ attempted = <<>>
    /\ warmDone = FALSE
    /\ last = [name |-> "none", id |-> <<>>, is_max |-> FALSE, out |-> NoRet]
    /\ bodyRuns = [k \in Keys |-> 0]
    /\ enumerated = {}

Init == \E t \in Trees : Start(t)

Next ==
    \/ RunDetermineMove
    \/ RunMinmax
    \/ CellEnd
    \/ WarmupStart
    \/ WarmupTry
    \/ WarmupNext
    \/ WarmupEnd
    \/ Step(Main)

Spec == Init /\ [][Next]_vars

-----------------------------------------------------------------------------
(* The notebook on a tree that breaks the end-state rule *)

InitInvalidTree == \E t \in InvalidTrees : Start(t)

SpecInvalidTree == InitInvalidTree /\ [][Next]_vars

-----------------------------------------------------------------------------
(* One Memoize_tree used with two trees *)

\* Between two cells another tree is bound to the name passed as first
\* argument; memo is the attribute of the same Memoize_tree and stays.
LoadTree ==
    /\ cell.name = "idle"
    /\ stack[Main] = <<>>
    /\ ret[Main].kind = "none"
    /\ before.tree = tree
    /\ nops > 0
    /\ \E t \in Trees \ {tree} : tree' = t
    /\ before' = [tree |-> tree, memo |-> memo]
    /\ last' = [name |-> "load", id |-> <<>>, is_max |-> FALSE, out |-> NoRet]
    /\ UNCHANGED <<memo, stack, ret, cell, nops, widx, attempted, warmDone,
                   bodyRuns, enumerated>>

NextTreeSwap ==
    \/ RunMinmax
    \/ CellEnd
    \/ LoadTree
    \/ StepEval(Main)

SpecTreeSwap == Init /\ [][NextTreeSwap]_vars

-----------------------------------------------------------------------------
(* Threads sharing one Memoize_tree *)

\* Number of evaluator calls the threads may issue together.
MaxThreadCalls == 2

\* The identifiers the threads evaluate: a position one move in, one below
\* it, and an identifier the tree does not hold.
ThreadIds == {<<"b">>, <<"b", "c">>, AbsentId}

\* A thread calls the decorated minmax_tt(TicToe_3x3, id, is_max).
ThreadCall(w) ==
    /\ stack[w] = <<>>
    /\ ret[w].kind = "none"
    /\ nops < MaxThreadCalls
    /\ \E id \in ThreadIds, is_max \in BOOLEAN :
          stack' = [stack EXCEPT ![w] = <<Frame("__call__", id, is_max, "test")>>]
    /\ nops' = nops + 1
    /\ UNCHANGED <<before, tree, memo, ret, cell, widx, attempted, warmDone, last,
                   bodyRuns, enumerated>>

\* The call of the thread has returned or raised.
ThreadReturn(w) ==
    /\ stack[w] = <<>>
    /\ ret[w].kind # "none"
    /\ ret' = [ret EXCEPT ![w] = NoRet]
    /\ UNCHANGED <<before, tree, memo, stack, cell, nops, widx, attempted, warmDone,
                   last, bodyRuns, enumerated>>

NextConcurrent ==
    \E w \in Threads :
        \/ ThreadCall(w)
        \/ ThreadReturn(w)
        \/ StepEval(w)

SpecConcurrent == Init /\ [][NextConcurrent]_vars

-----------------------------------------------------------------------------
(* Shapes of the state *)

Rets == [kind : {"none", "val", "move", "exc"}, v : -1..1,
         s : Symbols \cup {"", "NodeIDAbsentError", "ValueError", "NameError",
                           "KeyError"}]

TypeOK ==
    /\ tree \in AllTrees
    /\ before.tree \in AllTrees
    /\ DOMAIN memo \subseteq Keys
    /\ \A k \in DOMAIN memo : memo[k] \in -1..1
    /\ \A w \in Threads :
          /\ ret[w] \in Rets
          /\ \A i \in 1..Len(stack[w]) :
                /\ stack[w][i].fn \in {"__call__", "minmax_tt", "determine_move"}
                /\ stack[w][i].id \in Ids
                /\ stack[w][i].pc \in {"test", "store", "return", "enter", "loop"}
    /\ cell.name \in {"idle", "determine_move", "minmax_tt", "warmup"}
    /\ nops \in 0..MaxOps
    /\ widx \in 0..(Len(all_states) + 1)
    /\ warmDone \in BOOLEAN
    /\ last.out \in Rets
    /\ bodyRuns \in [Keys -> Nat]
    /\ enumerated \subseteq Ids

\* The keys of the positions of the tree.
TreeKeys == {k \in Keys : contains(tree, k[1])}

\* A position of the tree that is no end state and has at least one child.
Inner(id) ==
    /\ contains(tree, id)
    /\ ~is_endstate(tree, id)
    /\ Len(children(tree, id)) > 0

ChildSet(id) == {children(tree, id)[k] : k \in 1..Len(children(tree, id))}

\* The outcomes of the unmemoized evaluator, tabulated per tree and key.
Unmemoized ==
    [t \in AllTrees |-> [k \in Keys |-> minmax_tt_unmemoized(t, k[1], k[2])]]

-----------------------------------------------------------------------------
(* Claims *)

\* C1 (cache transparency): every entry of memo under (id, role) equals the
\* value the unmemoized minmax_tt computes for (id, role), and every outcome
\* of a memoized call made by a cell is the unmemoized outcome for its
\* arguments, whatever was evaluated before.
C1_CacheTransparency ==
    /\ \A k \in DOMAIN memo :
          Unmemoized[tree][k] = Val(memo[k])
    /\ last.name = "minmax_tt" =>
          last.out = Unmemoized[tree][<<last.id, last.is_max>>]

\* A second cell got a score from the memoized evaluator for a position whose
\* value depends on the role, with both roles of that position in memo.
C1_Witness ==
    /\ last.name = "minmax_tt"
    /\ last.out.kind = "val"
    /\ nops = 2
    /\ Inner(last.id)
    /\ <<last.id, TRUE>> \in DOMAIN memo
    /\ <<last.id, FALSE>> \in DOMAIN memo
    /\ memo[<<last.id, TRUE>>] # memo[<<last.id, FALSE>>]

\* C2 (write-once, no eviction): a key present in memo is present in the next
\* state with the same value, so the key set only grows.
C2_WriteOnce ==
    [][\A k \in DOMAIN memo : k \in DOMAIN memo' /\ memo'[k] = memo[k]]_vars

\* The second cell has stored a further entry into a memo that already held
\* entries of the first cell.
C2_Witness ==
    /\ nops = 2
    /\ Running(Main, "__call__", "return")
    /\ ~Top(Main).hit
    /\ Cardinality(DOMAIN memo) >= 4
    /\ \E k \in DOMAIN memo : k[1] = RootId

\* C3 (at-most-once computation): for the keys of the tree's positions the
\* body runs at most once; a key in memo has run it exactly once; and when no
\* call is in progress the keys whose body has run are exactly the keys of
\* memo, however many calls were issued.
C3_AtMostOnce ==
    /\ \A k \in TreeKeys :
          /\ bodyRuns[k] <= 1
          /\ k \in DOMAIN memo => bodyRuns[k] = 1
    /\ stack[Main] = <<>> => {k \in TreeKeys : bodyRuns[k] > 0} = DOMAIN memo

\* A call was issued for a key that is already in memo: the membership test
\* has found it and the body count of the key is still one.
C3_Witness ==
    /\ Running(Main, "__call__", "return")
    /\ Top(Main).hit
    /\ bodyRuns[<<Top(Main).id, Top(Main).is_max>>] = 1
    /\ Cardinality(DOMAIN memo) >= 2

\* C4 (minimax recurrence): the value stored for a position with children is
\* the maximum (maximizing role) or minimum (minimizing role) of the values
\* stored for its children under the opposite role, all of which are stored.
C4_Recurrence ==
    \A k \in DOMAIN memo :
        Inner(k[1]) =>
            LET kid == {<<c, ~k[2]>> : c \in ChildSet(k[1])}
            IN  /\ kid \subseteq DOMAIN memo
                /\ \E c \in kid : memo[c] = memo[k]
                /\ \A c \in kid : IF k[2] THEN memo[c] <= memo[k]
                                          ELSE memo[c] >= memo[k]

\* memo holds, for both roles, a position whose children have different
\* scores, so that maximum and minimum differ.
C4_Witness ==
    \E p \in tree.nodes :
        /\ Inner(p)
        /\ <<p, TRUE>> \in DOMAIN memo
        /\ <<p, FALSE>> \in DOMAIN memo
        /\ \E c, d \in ChildSet(p) :
              /\ <<c, FALSE>> \in DOMAIN memo
              /\ <<d, FALSE>> \in DOMAIN memo
              /\ memo[<<c, FALSE>>] < memo[<<d, FALSE>>]

\* C5 (terminal short-circuit): an end state is stored and returned with its
\* own value under either role; the evaluator never enumerates the children
\* of an end state, and the body of an end state never has a callee.
C5_TerminalShortCircuit ==
    /\ \A k \in DOMAIN memo :
          is_endstate(tree, k[1]) => memo[k] = get_value(tree, k[1])
    /\ \A id \in enumerated : ~is_endstate(tree, id)
    /\ \A i \in 1..Len(stack[Main]) :
          (stack[Main][i].fn = "minmax_tt" /\ is_endstate(tree, stack[Main][i].id))
              => i = Len(stack[Main])
    /\ (last.name = "minmax_tt" /\ is_endstate(tree, last.id))
          => last.out = Val(get_value(tree, last.id))

\* Two cells have evaluated one end state, once under each role, and nothing
\* else is in memo.
C5_Witness ==
    /\ last.name = "minmax_tt"
    /\ is_endstate(tree, last.id)
    /\ DOMAIN memo = {<<last.id, TRUE>>, <<last.id, FALSE>>}
    /\ get_value(tree, last.id) # 0

\* The score of a child as determine_move asks for it: evaluated with the
\* role opposite to is_max.
ChildScore(c, is_max) == Unmemoized[tree][<<c, ~is_max>>].v

\* The last letters of the children of id whose score is extremal for is_max.
BestMoves(id, is_max) ==
    {c[Len(c)] : c \in {c \in ChildSet(id) :
        \A d \in ChildSet(id) :
            IF is_max THEN ChildScore(d, is_max) <= ChildScore(c, is_max)
                      ELSE ChildScore(d, is_max) >= ChildScore(c, is_max)}}

\* C6 (move selection): determine_move on a position with at least one child
\* ends without error and returns the last symbol of a child whose score is
\* the maximum (maximizing) or minimum (minimizing) of the children's scores.
C6_MoveSelection ==
    (last.name = "determine_move" /\ Inner(last.id)) =>
        /\ last.out.kind = "move"
        /\ last.out.s \in BestMoves(last.id, last.is_max)

\* C7 (warm-up completion): once the warm-up loop has finished, every
\* position of the tree below the empty board that is no end state has an
\* entry in memo for the warm-up's role.
C7_WarmupCompletion ==
    warmDone =>
        \A p \in tree.nodes \ {RootId} :
            Inner(p) => <<p, warmup_role>> \in DOMAIN memo

\* C8 (no recursive cost after warm-up): once the warm-up loop has finished,
\* a cell running determine_move on a position with children, for either
\* role, runs no evaluator body and adds nothing to memo.
C8_NoCostAfterWarmup ==
    [][(warmDone /\ cell.name = "determine_move" /\ Inner(cell.id)) =>
           (memo' = memo /\ bodyRuns' = bodyRuns)]_vars

\* C9 (warm-up fault tolerance): an exception that reaches the warm-up loop
\* is discarded and the loop goes on with the next candidate, memo untouched;
\* the candidates are attempted in the order of all_states; the loop is only
\* left at its end, with every candidate attempted and no error; and no
\* entry of memo is changed or removed while the loop runs.
C9_WarmupFaultTolerance ==
    [][/\ (cell.name = "warmup" /\ stack[Main] = <<>> /\ ret[Main].kind = "exc") =>
             /\ cell'.name = "warmup"
             /\ widx' = widx + 1
             /\ ret'[Main].kind = "none"
             /\ memo' = memo
       /\ (cell.name = "warmup" /\ attempted' # attempted) =>
             attempted' = SubSeq(all_states, 1, Len(attempted) + 1)
       /\ (cell.name = "warmup" /\ cell'.name # "warmup") =>
             /\ warmDone'
             /\ attempted' = all_states
             /\ last'.out.kind # "exc"
       /\ cell.name = "warmup" =>
             \A k \in DOMAIN memo : k \in DOMAIN memo' /\ memo'[k] = memo[k]
      ]_vars

\* The warm-up loop has finished although it attempted an identifier the tree
\* does not hold and a position without children, and memo holds the entries
\* of the candidates around them.
C9_Witness ==
    /\ warmDone
    /\ last.name = "warmup"
    /\ \E i \in 1..Len(attempted) : ~contains(tree, attempted[i])
    /\ \E i, j \in 1..Len(attempted) :
          /\ i < j
          /\ Inner(attempted[i])
          /\ contains(tree, attempted[j])
          /\ Len(children(tree, attempted[j])) = 0
    /\ Cardinality(DOMAIN memo) >= 4

\* C10 (warm-up candidate set): the candidates the warm-up loop hands to
\* determine_move are exactly the strings without repeated letter of every
\* length from 1 up to the number of cells.
C10_WarmupCandidates ==
    warmDone => {attempted[i] : i \in 1..Len(attempted)} = Positions


\* A position of the tree that is no end state and has no children.
Invalid(id) ==
    /\ contains(tree, id)
    /\ ~is_endstate(tree, id)
    /\ Len(children(tree, id)) = 0

\* C11 (only expected errors are swallowed): an error raised by the evaluator
\* for a node that is no end state and has no children, reaching the warm-up
\* loop from a candidate that has children, leaves the loop and ends the cell
\* with that error.
C11_OnlyExpectedSwallowed ==
    [][(/\ cell.name = "warmup"
        /\ stack[Main] = <<>>
        /\ ret[Main].kind = "exc"
        /\ ret[Main].s = "ValueError"
        /\ contains(tree, all_states[widx])
        /\ Len(children(tree, all_states[widx])) > 0) =>
           (/\ cell'.name # "warmup"
            /\ ~warmDone'
            /\ last'.out = ret[Main])]_vars

\* C12 (invalid selector input): a cell running determine_move on an
\* identifier absent from the tree ends with the lookup error, and on a
\* position without children with the error of an empty max/min; in both
\* cases memo stays as it is.
C12_InvalidSelectorInput ==
    [][(cell.name = "determine_move"
            /\ (~contains(tree, cell.id) \/ Len(children(tree, cell.id)) = 0)) =>
           (/\ memo' = memo
            /\ cell'.name = "idle" =>
                  last'.out = IF contains(tree, cell.id) THEN Exc("ValueError")
                              ELSE Exc("NodeIDAbsentError"))]_vars

\* C13 (invalid tree): the evaluation of a node that is no end state and has
\* no children ends in the error of an empty max/min, never in a score, and
\* memo never holds a key of such a node.
C13_InvalidTree ==
    /\ \A k \in DOMAIN memo : ~Invalid(k[1])
    /\ (last.name = "minmax_tt" /\ Invalid(last.id)) => last.out = Exc("ValueError")
    /\ (Running(Main, "__call__", "store") /\ Invalid(Top(Main).id)
            /\ ret[Main].kind # "none") => ret[Main] = Exc("ValueError")

\* A cell has evaluated a node without children that is no end state and
\* ended with the error; the body was entered and memo holds no key of it.
C13_Witness ==
    /\ last.name = "minmax_tt"
    /\ Invalid(last.id)
    /\ last.out.kind = "exc"
    /\ bodyRuns[<<last.id, last.is_max>>] >= 1
    /\ <<last.id, last.is_max>> \notin DOMAIN memo

\* C14 (idempotence of selection): after the warm-up, a cell repeating
\* determine_move on a candidate with children and the warm-up's role leaves
\* memo unchanged and returns a move of the extremal-score set.
C14_IdempotentSelection ==
    [][(/\ warmDone
        /\ cell.name = "determine_move"
        /\ cell.is_max = warmup_role
        /\ Inner(cell.id)
        /\ Contains(all_states, cell.id)) =>
           (/\ memo' = memo
            /\ cell'.name = "idle" =>
                  /\ last'.out.kind = "move"
                  /\ last'.out.s \in BestMoves(cell.id, cell.is_max))]_vars

\* C15 (tree-independence of the key): the entries memo held when another
\* tree was bound stay as they are, with the values of the earlier tree and
\* one body run each; a call on the new tree for such a key returns the
\* earlier tree's value.
C15_TreeIndependentKey ==
    /\ \A k \in DOMAIN before.memo :
          /\ k \in DOMAIN memo
          /\ memo[k] = before.memo[k]
          /\ Unmemoized[before.tree][k] = Val(memo[k])
          /\ bodyRuns[k] = 1
    /\ (last.name = "minmax_tt" /\ <<last.id, last.is_max>> \in DOMAIN before.memo) =>
          last.out = Unmemoized[before.tree][<<last.id, last.is_max>>]

\* After another tree was bound, a cell has evaluated a key that was already
\* in memo and got a score that is not the new tree's score for it.
C15_Witness ==
    /\ tree # before.tree
    /\ last.name = "minmax_tt"
    /\ <<last.id, last.is_max>> \in DOMAIN before.memo
    /\ Unmemoized[tree][<<last.id, last.is_max>>].kind = "val"
    /\ Unmemoized[tree][<<last.id, last.is_max>>] # last.out

\* The positions of the tree below id.
Descendants(id) ==
    IF ~contains(tree, id) THEN {}
    ELSE IF id = RootId THEN tree.nodes \ {RootId}
    ELSE {n \in tree.nodes \ {RootId} :
             Len(n) > Len(id) /\ SubSeq(n, 1, Len(id)) = id}

Level(id) == IF id = RootId THEN 0 ELSE Len(id)

\* The keys (d, r_k): d lies k >= 1 levels below id, r_k is is_max flipped
\* k times.
SubtreeKeys(id, is_max) ==
    {<<d, IF (Level(d) - Level(id)) % 2 = 0 THEN is_max ELSE ~is_max>> :
        d \in Descendants(id)}

\* C16 (cache delta of determine_move): while a cell runs determine_move on
\* (p, role), every key added to memo is a key (d, r_k) of a proper
\* descendant of p; when the call on a position of the tree ends, all those
\* keys are in memo, among them (c, opposite role) for every child c.
C16_CacheDelta ==
    [][cell.name = "determine_move" =>
           (/\ (DOMAIN memo' \ DOMAIN memo) \subseteq SubtreeKeys(cell.id, cell.is_max)
            /\ \A k \in DOMAIN memo : k \in DOMAIN memo'
            /\ cell'.name = "idle" =>
                  /\ SubtreeKeys(cell.id, cell.is_max) \subseteq DOMAIN memo'
                  /\ \A c \in Descendants(cell.id) :
                        ParentOf(c) = cell.id => <<c, ~cell.is_max>> \in DOMAIN memo')
      ]_vars

\* The second cell was determine_move on a position with grandchildren; memo
\* holds the keys below it next to keys the first cell stored elsewhere.
C16_Witness ==
    /\ nops = 2
    /\ last.name = "determine_move"
    /\ Inner(last.id)
    /\ \E c \in ChildSet(last.id) : Inner(c)
    /\ SubtreeKeys(last.id, last.is_max) \subseteq DOMAIN memo
    /\ \E k \in DOMAIN memo : k \notin SubtreeKeys(last.id, last.is_max)
    /\ \E k \in SubtreeKeys(last.id, last.is_max) : bodyRuns[k] = 1

\* C17 (write-once under interleaving): with threads interleaving the steps
\* of __call__ on one memo, a stored key keeps its value in every step, and
\* every value stored is the unmemoized value of its key.
C17_WriteOnceInterleaved ==
    [][/\ \A k \in DOMAIN memo : k \in DOMAIN memo' /\ memo'[k] = memo[k]
       /\ \A k \in DOMAIN memo' : Unmemoized[tree][k] = Val(memo'[k])
       /\ \A w \in Threads :
             (stack'[w] = <<>> /\ ret'[w].kind = "val" /\ Len(stack[w]) = 1) =>
                 ret'[w] = Unmemoized[tree][<<stack[w][1].id, stack[w][1].is_max>>]
      ]_vars

\* Both threads have computed and stored the same key and have returned.
C17_Witness ==
    /\ \A w \in Threads : stack[w] = <<>>
    /\ \E k \in DOMAIN memo : bodyRuns[k] = 2 /\ Inner(k[1])

\* C18 (downward closure): in every state, a key of memo whose position is no
\* end state has the keys of all its children under the opposite role in
\* memo.
C18_DownwardClosure ==
    \A k \in DOMAIN memo :
        (contains(tree, k[1]) /\ ~is_endstate(tree, k[1])) =>
            \A c \in ChildSet(k[1]) : <<c, ~k[2]>> \in DOMAIN memo

\* In the middle of a recursive evaluation three levels deep, memo already
\* holds a position that is no end state.
C18_Witness ==
    /\ Len(stack[Main]) >= 5
    /\ \E k \in DOMAIN memo : Inner(k[1])

\* C19 (consistency after a failed evaluation): no step stores a key whose
\* evaluation fails, so neither the failing node nor a caller of it gets an
\* entry; while an exception is in flight no evaluator frame on the stack has
\* its key in memo; the entries stored before stay and are the unmemoized
\* values; and every call for a key whose evaluation fails enters the body
\* again.
C19_FailedEvaluation ==
    [][/\ \A k \in DOMAIN memo' : Unmemoized[tree][k] = Val(memo'[k])
       /\ \A k \in DOMAIN memo : k \in DOMAIN memo' /\ memo'[k] = memo[k]
       /\ ret'[Main].kind = "exc" =>
             \A i \in 1..Len(stack'[Main]) :
                 stack'[Main][i].fn # "determine_move" =>
                     <<stack'[Main][i].id, stack'[Main][i].is_max>> \notin DOMAIN memo'
       /\ (/\ Running(Main, "__call__", "test")
           /\ Unmemoized[tree][<<Top(Main).id, Top(Main).is_max>>].kind = "exc") =>
             bodyRuns'[<<Top(Main).id, Top(Main).is_max>>] =
                 bodyRuns[<<Top(Main).id, Top(Main).is_max>>] + 1
      ]_vars

\* A second cell has evaluated the same failing key again: the body was
\* entered twice, the key is not in memo, and memo holds the entries of the
\* subtree that was completed before the failure.
C19_Witness ==
    /\ last.name = "minmax_tt"
    /\ last.out.kind = "exc"
    /\ contains(tree, last.id)
    /\ ~Invalid(last.id)
    /\ bodyRuns[<<last.id, last.is_max>>] = 2
    /\ <<last.id, last.is_max>> \notin DOMAIN memo
    /\ \E k \in DOMAIN memo : ParentOf(k[1]) = last.id /\ Inner(k[1])

====
